---- MODULE Spec2Model ----
(***************************************************************************)
(* A model of deep_mae's ranking and evaluation path                       *)
(* (src/deep_mae/multimodal.py and its oracle test_multimodal.py):         *)
(*   - rank_hits   : per-row top-k selection and melt into an edge list    *)
(*   - onehot      : expansion of count rows into per-observation hits     *)
(*   - the rank matrix / predict weight chain of `autoencoder`             *)
(*   - cross_validation's retrieval report                                 *)
(*   - the `autoencoder`, `network` and `split` commands and their files   *)
(* Each component has its own specification over the shared variables.     *)
(***************************************************************************)
EXTENDS Integers, Sequences, FiniteSets, TLC

VARIABLES
    \* rank_hits
    ranks,      \* the rank matrix handed to rank_hits (rows x columns)
    k,          \* number of neighbours kept per row
    topk,       \* the frame of selected column positions, built row by row
    res,        \* the emitted (src, rank, dest) records
    rpc         \* position inside rank_hits: "apply", "melt", "done"

VARIABLES
    \* onehot
    microbes,       \* microbe count matrix (samples x microbes)
    metabolites,    \* closed metabolite proportions (samples x metabolites)
    otu_hits,       \* microbe column index of every observation
    ms_hits,        \* metabolite proportions paired with every observation
    opc             \* position inside onehot: "call", "done"

VARIABLES
    \* the weight chain of autoencoder
    chain_ranks,    \* the rank matrix expression, evaluated so far
    chain_pred,     \* predict's softmax argument for every indicator input
    lpc             \* the layer applied next: "U3", "U2", "V2", "V1", "done"

VARIABLES
    \* cross_validation
    top_N,          \* neighbours compared per source row
    cv_rows,        \* number of source rows of the run
    cv_done,        \* source rows scored so far
    counts,         \* the running TP, FP, FN, TN
    cv_params,      \* the report cross_validation returns
    cvpc            \* "score", "report", "reference", "done"

VARIABLES
    \* the ms_spearman computation of autoencoder
    sp_samples,     \* number of held-out samples, metabolites.shape[0]
    sp_k,           \* top_k
    ms_r,           \* the list the loop appends to
    ms_spearman,    \* the value stored in the report
    rhos,           \* the correlation coefficient of every sample so far
    sppc            \* "loop", "mean", "done"

VARIABLES
    \* the commands
    cmd,            \* "autoencoder", "network" or "split"
    pc,             \* position inside the command
    status,         \* "running", "ok" or "error"
    files,          \* the output artifacts written so far
    microbes_df,    \* the microbe counts last read into a frame
    metabolites_df, \* the metabolite counts last read into a frame
    closed,         \* the closed tables the evaluation works on
    params,         \* the report row of autoencoder
    index,          \* split: the aligned sample ids
    num_test,       \* split: --num_test
    sample_ids      \* split: the ids drawn for the test tables

rankVars == <<ranks, k, topk, res, rpc>>
onehotVars == <<microbes, metabolites, otu_hits, ms_hits, opc>>
chainVars == <<chain_ranks, chain_pred, lpc>>
cvVars == <<top_N, cv_rows, cv_done, counts, cv_params, cvpc>>
spearmanVars == <<sp_samples, sp_k, ms_r, ms_spearman, rhos, sppc>>
cmdVars == <<cmd, pc, status, files, microbes_df, metabolites_df, closed,
             params, index, num_test, sample_ids>>

vars == <<rankVars, onehotVars, chainVars, cvVars, spearmanVars, cmdVars>>

notRank == <<onehotVars, chainVars, cvVars, spearmanVars, cmdVars>>
notOnehot == <<rankVars, chainVars, cvVars, spearmanVars, cmdVars>>
notChain == <<rankVars, onehotVars, cvVars, spearmanVars, cmdVars>>
notCv == <<rankVars, onehotVars, chainVars, spearmanVars, cmdVars>>
notSpearman == <<rankVars, onehotVars, chainVars, cvVars, cmdVars>>
notCmd == <<rankVars, onehotVars, chainVars, cvVars, spearmanVars>>

\* the components a specification does not exercise stay idle
RankIdle == ranks = <<>> /\ k = 0 /\ topk = <<>> /\ res = <<>> /\ rpc = "idle"
OnehotIdle ==
    /\ microbes = <<>> /\ metabolites = <<>>
    /\ otu_hits = <<>> /\ ms_hits = <<>> /\ opc = "idle"
ChainIdle == chain_ranks = <<>> /\ chain_pred = <<>> /\ lpc = "idle"
CvIdle ==
    /\ top_N = 0 /\ cv_rows = 0 /\ cv_done = 0 /\ counts = <<>>
    /\ cv_params = <<>> /\ cvpc = "idle"
SpearmanIdle ==
    /\ sp_samples = 0 /\ sp_k = 0 /\ ms_r = <<>>
    /\ ms_spearman = <<>> /\ rhos = <<>> /\ sppc = "idle"
CmdIdle ==
    /\ cmd = "none" /\ pc = "idle" /\ status = "idle" /\ files = {}
    /\ microbes_df = <<>> /\ metabolites_df = <<>> /\ closed = <<>>
    /\ params = <<>> /\ index = {} /\ num_test = 0 /\ sample_ids = {}

(***************************************************************************)
(* Bounds of the explored inputs.                                          *)
(***************************************************************************)
MaxRank == 2            \* rank matrix entries range over 0..MaxRank
MaxCount == 2           \* microbe counts of a cell range over 0..MaxCount
MaxMsCount == 1         \* metabolite counts of a cell range over 0..MaxMsCount
MaxWeight == 1          \* trained weights and biases range over -1..MaxWeight
MaxCvRows == 4          \* cross_validation scores 1..MaxCvRows source rows
MaxHeldOut == 3         \* the Spearman loop runs over 1..MaxHeldOut samples
MaxSamples == 2         \* the tables of a command hold 1..MaxSamples samples

RankRows == 1..2        \* row positions of the generated rank matrices
RankCols == 1..3        \* column positions of the generated rank matrices

(***************************************************************************)
(* Small helpers.                                                          *)
(***************************************************************************)
Range(s) == {s[i] : i \in DOMAIN s}

Perms(n) == {p \in [1..n -> 1..n] : \A i, j \in 1..n : i # j => p[i] # p[j]}

\* pandas labels: ranks.index[r] and ranks.columns[c]
OtuLabel(r) == <<"OTU", r>>
MsLabel(c) == <<"MS", c>>

(***************************************************************************)
(* rank_hits.                                                              *)
(***************************************************************************)

\* np.argsort(x): a permutation of the positions that puts x in ascending
\* order.  The default kind is not stable, so every order of equal entries
\* is an outcome.
ArgSorts(x) ==
    {p \in Perms(Len(x)) : \A i \in 1..(Len(x) - 1) : x[p[i]] <= x[p[i + 1]]}

TopKFirst(p, kk) == SubSeq(p, 1, kk)

\* np.argsort(x)[-k:] : the last k positions of the ascending order
TopK(p, kk) == SubSeq(p, Len(p) - kk + 1, Len(p))

MeltRowMajor(frame, kk) ==
    LET R == Len(frame) IN
    [i \in 1..(kk * R) |->
        LET r == ((i - 1) \div kk) + 1
            j == ((i - 1) % kk) + 1
        IN  [src |-> r, variable |-> j, value |-> frame[r][j]]]

\* pd.melt(top_hits, id_vars=[index], value_vars=list(range(k))): one block
\* per value column, in value-column order, each block listing the rows of
\* the frame in frame order.
Melt(frame, kk) ==
    LET R == Len(frame) IN
    [i \in 1..(kk * R) |->
        LET j == ((i - 1) \div R) + 1
            r == ((i - 1) % R) + 1
        IN  [src |-> r, variable |-> j, value |-> frame[r][j]]]

\* rank_hits(ranks, k): melt the top-k frame and look the rank of every
\* (src, dest) pair up in the matrix.
rank_hits(rk, frame, kk) ==
    LET edges == Melt(frame, kk) IN
    [i \in DOMAIN edges |->
        [src  |-> OtuLabel(edges[i].src),
         rank |-> rk[edges[i].src][edges[i].value],
         dest |-> MsLabel(edges[i].value)]]

\* The matrix of test_rank_hits and the frame it expects.
TestRanks ==
    << <<1, 4, 1, 5, 7>>,
       <<2, 6, 9, 2, 8>>,
       <<2, 2, 6, 8, 4>> >>

TestExp ==
    << [src |-> OtuLabel(1), rank |-> 5, dest |-> MsLabel(4)],
       [src |-> OtuLabel(2), rank |-> 8, dest |-> MsLabel(5)],
       [src |-> OtuLabel(3), rank |-> 6, dest |-> MsLabel(3)],
       [src |-> OtuLabel(1), rank |-> 7, dest |-> MsLabel(5)],
       [src |-> OtuLabel(2), rank |-> 9, dest |-> MsLabel(3)],
       [src |-> OtuLabel(3), rank |-> 8, dest |-> MsLabel(4)] >>

RankMatrices == [RankRows -> [RankCols -> 0..MaxRank]] \cup {TestRanks}

RankInit ==
    /\ ranks \in RankMatrices
    /\ k \in 1..Len(ranks[1])
    /\ topk = <<>>
    /\ res = <<>>
    /\ rpc = "apply"
    /\ OnehotIdle /\ ChainIdle /\ CvIdle /\ SpearmanIdle /\ CmdIdle

\* ranks.apply(lambda x: ... np.argsort(x)[-k:] ..., axis=1): one row
ApplyRow ==
    /\ rpc = "apply"
    /\ Len(topk) < Len(ranks)
    /\ \E p \in ArgSorts(ranks[Len(topk) + 1]) :
           topk' = Append(topk, TopK(p, k))
    /\ UNCHANGED <<ranks, k, res, rpc, notRank>>

ApplyDone ==
    /\ rpc = "apply"
    /\ Len(topk) = Len(ranks)
    /\ rpc' = "melt"
    /\ UNCHANGED <<ranks, k, topk, res, notRank>>

MeltHits ==
    /\ rpc = "melt"
    /\ res' = rank_hits(ranks, topk, k)
    /\ rpc' = "done"
    /\ UNCHANGED <<ranks, k, topk, notRank>>

RankNext == ApplyRow \/ ApplyDone \/ MeltHits

SpecRank == RankInit /\ [][RankNext]_vars

(***************************************************************************)
(* Claims about rank_hits.                                                 *)
(***************************************************************************)
RowOf(rec) == rec.src[2]
ColOf(rec) == rec.dest[2]
RecordsOf(r) == {i \in DOMAIN res : RowOf(res[i]) = r}

\* the columns of x that have fewer than kk strictly larger entries
TopCols(x, kk) ==
    {c \in DOMAIN x : Cardinality({d \in DOMAIN x : x[d] > x[c]}) < kk}

\* the m-th smallest entry of x, counted with multiplicity
OrderStat(x, m) ==
    CHOOSE v \in Range(x) :
        /\ Cardinality({c \in DOMAIN x : x[c] < v}) < m
        /\ m <= Cardinality({c \in DOMAIN x : x[c] <= v})

\* C1: for every row the emitted destinations are exactly the k columns of
\* the k largest values (when the k-th and (k+1)-th largest differ), every
\* record's rank is the matrix entry at (source, destination), and within
\* one source row an earlier record never has a larger rank than a later one.
C1_TopKAscending ==
    rpc = "done" =>
        \A r \in DOMAIN ranks :
            /\ Cardinality(RecordsOf(r)) = k
            /\ Cardinality(TopCols(ranks[r], k)) = k =>
                   {ColOf(res[i]) : i \in RecordsOf(r)} = TopCols(ranks[r], k)
            /\ \A i \in RecordsOf(r) :
                   /\ ColOf(res[i]) \in DOMAIN ranks[r]
                   /\ res[i].rank = ranks[r][ColOf(res[i])]
            /\ \A i, j \in RecordsOf(r) :
                   i < j => res[i].rank <= res[j].rank

C1_Witness ==
    /\ rpc = "done"
    /\ k = 2
    /\ \E r \in DOMAIN ranks :
           /\ Cardinality(TopCols(ranks[r], k)) = k
           /\ \E i, j \in RecordsOf(r) : res[i].rank < res[j].rank
    /\ \E r \in DOMAIN ranks : Cardinality(TopCols(ranks[r], k)) > k

\* C2: rank_hits emits exactly k*R records, position-major: the record at
\* index j*R + r (j in 0..k-1, r in 0..R-1) has source row r and the
\* (j+1)-th smallest of that row's k selected values; on the matrix of
\* test_rank_hits with k = 2 the output is exactly the expected frame.
C2_PositionMajor ==
    rpc = "done" =>
        LET R == Len(ranks)
            n == Len(ranks[1])
        IN  /\ Len(res) = k * R
            /\ \A j \in 0..(k - 1) : \A r \in 0..(R - 1) :
                   /\ RowOf(res[j * R + r + 1]) = r + 1
                   /\ res[j * R + r + 1].rank =
                          OrderStat(ranks[r + 1], n - k + j + 1)
            /\ (ranks = TestRanks /\ k = 2) => res = TestExp

C2_Witness ==
    /\ rpc = "done"
    /\ ranks = TestRanks
    /\ k = 2
    /\ res = TestExp

\* C3 as stated: the records of a source row are contiguous and the row
\* blocks follow the matrix's row order (every record of row r precedes
\* every record of row r+1).
C3_RowByRow ==
    rpc = "done" =>
        \A i, j \in DOMAIN res : i < j => RowOf(res[i]) <= RowOf(res[j])

\* C3 amended: the records come in k blocks of R records, one block per
\* selection position; every block lists the rows once, in the matrix's
\* row order; the records of one row are contiguous only when k = 1 or
\* the matrix has a single row.
C3_BlockByPosition ==
    rpc = "done" =>
        LET R == Len(ranks) IN
        /\ \A b \in 0..(k - 1) :
               [r \in 1..R |-> RowOf(res[b * R + r])] = [r \in 1..R |-> r]
        /\ \A b \in 0..(k - 1) : \A r \in 1..R :
               res[b * R + r].dest = MsLabel(topk[r][b + 1])
        /\ C3_RowByRow <=> (k = 1 \/ R = 1)

C3_Witness ==
    /\ rpc = "done"
    /\ k >= 2
    /\ Len(ranks) >= 2
    /\ \E i, j \in DOMAIN res : i < j /\ RowOf(res[i]) > RowOf(res[j])

(***************************************************************************)
(* Proportions are exact fractions <<numerator, denominator>>.             *)
(***************************************************************************)
RECURSIVE SeqSum(_)
SeqSum(s) == IF s = <<>> THEN 0 ELSE s[1] + SeqSum(Tail(s))

FracAdd(a, b) == <<a[1] * b[2] + b[1] * a[2], a[2] * b[2]>>
FracDiv(a, b) == <<a[1] * b[2], a[2] * b[1]>>
FracEq(a, b) == a[1] * b[2] = b[1] * a[2]

RECURSIVE FracSum(_)
FracSum(s) == IF s = <<>> THEN <<0, 1>> ELSE FracAdd(s[1], FracSum(Tail(s)))

\* skbio closure of one row of counts: every entry over the row sum
ClosureRow(row) == [j \in DOMAIN row |-> <<row[j], SeqSum(row)>>]

\* skbio closure of a matrix, row by row
closure(mat) == [s \in DOMAIN mat |-> ClosureRow(mat[s])]

(***************************************************************************)
(* onehot.                                                                 *)
(***************************************************************************)
OnehotSamples == 1..2       \* sample positions of the generated tables
OnehotMicrobes == 1..2      \* microbe columns of the generated tables
OnehotMetabolites == 1..2   \* metabolite columns of the generated tables

\* np.repeat of one value
Repeat(v, c) == [i \in 1..c |-> v]

RECURSIVE Concat(_)
Concat(ss) == IF ss = <<>> THEN <<>> ELSE ss[1] \o Concat(Tail(ss))

\* the cells of the count matrix in (sample, microbe) order, as records
\* (row, col, data); col is the 0-based column index numpy reports
Cells(mat) ==
    Concat([s \in DOMAIN mat |->
               [j \in DOMAIN mat[s] |->
                   [row |-> s, col |-> j - 1, data |-> mat[s][j]]]])

CellsColumnMajor(mat) ==
    Concat([j \in DOMAIN mat[1] |->
               [s \in DOMAIN mat |->
                   [row |-> s, col |-> j - 1, data |-> mat[s][j]]]])

OnehotOncePerCell(mat, props) ==
    LET cells == Cells(mat)
        nz == SelectSeq(cells, LAMBDA c : c.data > 0)
    IN  [otu |-> [i \in DOMAIN nz |-> nz[i].col],
         ms  |-> [i \in DOMAIN nz |-> props[nz[i].row]]]

OnehotColumnMajor(mat, props) ==
    LET cells == CellsColumnMajor(mat)
        cols == Concat([i \in DOMAIN cells |-> Repeat(cells[i].col, cells[i].data)])
        rows == Concat([i \in DOMAIN cells |-> Repeat(cells[i].row, cells[i].data)])
    IN  [otu |-> cols, ms |-> [i \in DOMAIN rows |-> props[rows[i]]]]

\* onehot(microbes, closed metabolites): every cell (s, j) with count c
\* gives c occurrences of column j, cells taken in (sample, microbe) order;
\* every occurrence is paired with the proportions of its sample.
onehot(mat, props) ==
    LET cells == Cells(mat)
        cols == Concat([i \in DOMAIN cells |-> Repeat(cells[i].col, cells[i].data)])
        rows == Concat([i \in DOMAIN cells |-> Repeat(cells[i].row, cells[i].data)])
    IN  [otu |-> cols, ms |-> [i \in DOMAIN rows |-> props[rows[i]]]]

\* The tables behind test_onehot_simple (3 samples, 2 microbes, 2
\* metabolites, 3 counts per sample) and the hits it expects.
TestMicrobes == << <<3, 0>>, <<3, 0>>, <<0, 3>> >>
TestMetabolites == << <<3, 0>>, <<1, 2>>, <<2, 1>> >>
TestOtuHits == <<0, 0, 0, 0, 0, 0, 1, 1, 1>>
TestMsHits ==
    << << <<3, 3>>, <<0, 3>> >>, << <<3, 3>>, <<0, 3>> >>, << <<3, 3>>, <<0, 3>> >>,
       << <<1, 3>>, <<2, 3>> >>, << <<1, 3>>, <<2, 3>> >>, << <<1, 3>>, <<2, 3>> >>,
       << <<2, 3>>, <<1, 3>> >>, << <<2, 3>>, <<1, 3>> >>, << <<2, 3>>, <<1, 3>> >> >>

MicrobeTables == [OnehotSamples -> [OnehotMicrobes -> 0..MaxCount]]

\* metabolite count tables without an all-zero row: closure is defined
MetaboliteTables ==
    {t \in [OnehotSamples -> [OnehotMetabolites -> 0..MaxMsCount]] :
        \A s \in OnehotSamples : SeqSum(t[s]) > 0}

OnehotInit ==
    /\ \/ /\ microbes \in MicrobeTables
          /\ \E t \in MetaboliteTables : metabolites = closure(t)
       \/ /\ microbes = TestMicrobes
          /\ metabolites = closure(TestMetabolites)
    /\ otu_hits = <<>>
    /\ ms_hits = <<>>
    /\ opc = "call"
    /\ RankIdle /\ ChainIdle /\ CvIdle /\ SpearmanIdle /\ CmdIdle

Onehot ==
    /\ opc = "call"
    /\ otu_hits' = onehot(microbes, metabolites).otu
    /\ ms_hits' = onehot(microbes, metabolites).ms
    /\ opc' = "done"
    /\ UNCHANGED <<microbes, metabolites, notOnehot>>

OnehotNext == Onehot

SpecOnehot == OnehotInit /\ [][OnehotNext]_vars

RECURSIVE MatSum(_)
MatSum(mat) == IF mat = <<>> THEN 0 ELSE SeqSum(mat[1]) + MatSum(Tail(mat))

\* C4: len(otu_hits) is the sum of all entries of the count matrix, ms_hits
\* has as many rows as otu_hits has entries, and every row of ms_hits sums
\* to 1, so closing it again changes nothing.
C4_OnehotShape ==
    opc = "done" =>
        /\ Len(otu_hits) = MatSum(microbes)
        /\ Len(ms_hits) = Len(otu_hits)
        /\ \A i \in DOMAIN ms_hits :
               /\ FracEq(FracSum(ms_hits[i]), <<1, 1>>)
               /\ \A j \in DOMAIN ms_hits[i] :
                      FracEq(FracDiv(ms_hits[i][j], FracSum(ms_hits[i])),
                             ms_hits[i][j])

C4_Witness ==
    /\ opc = "done"
    /\ Len(otu_hits) >= 3
    /\ \E s \in DOMAIN microbes : \E j \in DOMAIN microbes[s] : microbes[s][j] = 0
    /\ \E i \in DOMAIN ms_hits : \E j \in DOMAIN ms_hits[i] :
           ms_hits[i][j][1] # 0 /\ ms_hits[i][j][1] # ms_hits[i][j][2]

\* number of observations emitted before cell (s, j) in (sample, microbe)
\* order
Offset(s, j) ==
    MatSum(SubSeq(microbes, 1, s - 1)) + SeqSum(SubSeq(microbes[s], 1, j - 1))

\* C5: the output is ordered by (sample, microbe index, replicate): cell
\* (s, j) with count c fills the c consecutive positions after all earlier
\* cells with index j, a zero cell fills none, and every position carries
\* the proportions of the sample that produced it; the simple scenario of
\* the test yields the hits it expects.
C5_OnehotOrder ==
    opc = "done" =>
        /\ Len(otu_hits) = MatSum(microbes)
        /\ \A s \in DOMAIN microbes : \A j \in DOMAIN microbes[s] :
               \A t \in 1..microbes[s][j] :
                   /\ otu_hits[Offset(s, j) + t] = j - 1
                   /\ ms_hits[Offset(s, j) + t] = metabolites[s]
        /\ microbes = TestMicrobes =>
               otu_hits = TestOtuHits /\ ms_hits = TestMsHits

C5_Witness ==
    /\ opc = "done"
    /\ \E s \in DOMAIN microbes :
           /\ microbes[s][1] = 0
           /\ microbes[s][2] >= 2
           /\ s > 1
           /\ microbes[1][1] >= 1 /\ microbes[1][2] >= 1
           /\ metabolites[s] # metabolites[1]

(***************************************************************************)
(* The weight chain of autoencoder: the rank matrix and predict.           *)
(***************************************************************************)

\* Layer widths.  d1 microbes, d2 metabolites; build_model makes the shared
\* layer as wide as the two latent layers together.
ChainDims ==
    [d1 |-> 2, microbe_latent_dim |-> 1, metabolite_latent_dim |-> 1, d2 |-> 3]
SharedDim == ChainDims.metabolite_latent_dim + ChainDims.microbe_latent_dim

WeightVals == (0 - 1)..MaxWeight

\* a keras kernel or its transpose, as a sequence of rows
Mats(rows, cols) == [1..rows -> [1..cols -> WeightVals]]
Vecs(n) == [1..n -> WeightVals]

Transpose(A) == [j \in 1..Len(A[1]) |-> [i \in 1..Len(A) |-> A[i][j]]]

RECURSIVE Dot(_, _, _)
Dot(a, b, n) == IF n = 0 THEN 0 ELSE a[n] * b[n] + Dot(a, b, n - 1)

\* A @ B
MatMul(A, B) ==
    [i \in 1..Len(A) |->
        [j \in 1..Len(B[1]) |->
            Dot(A[i], [m \in 1..Len(B) |-> B[m][j]], Len(B))]]

\* A + b with b broadcast over the rows of A
AddBias(A, b) == [i \in 1..Len(A) |-> [j \in 1..Len(A[i]) |-> A[i][j] + b[j]]]

\* the single-microbe indicator input e_i, as a one-row matrix
Indicator(i) == << [j \in 1..ChainDims.d1 |-> IF j = i THEN 1 ELSE 0] >>

RanksFirstNoBias(U3, U2b) == Transpose(U3)

\* ranks, innermost term:  (U3.T + U2b)
RanksFirst(U3, U2b) == AddBias(Transpose(U3), U2b)

\* ranks, one further layer:  (t @ W.T + b)
RanksLayer(t, W, b) == AddBias(MatMul(t, Transpose(W)), b)

\* ranks, outermost product:  t @ V1.T
RanksLast(t, V1) == MatMul(t, Transpose(V1))

\* predict, innermost term:  (x @ U3.T + U2b)
PredictFirst(x, U3, U2b) == AddBias(MatMul(x, Transpose(U3)), U2b)

\* predict, one further layer:  (t @ W.T + b)
PredictLayer(t, W, b) == AddBias(MatMul(t, Transpose(W)), b)

\* predict, the argument handed to softmax:  t @ V1.T
PredictLast(t, V1) == MatMul(t, Transpose(V1))

ChainInit ==
    /\ chain_ranks = <<>>
    /\ chain_pred = <<>>
    /\ lpc = "U3"
    /\ RankIdle /\ OnehotIdle /\ CvIdle /\ SpearmanIdle /\ CmdIdle

\* The weights are whatever model.fit left in the model; every tensor is
\* used once in ranks and once in predict, so each layer draws its own.
LayerU3 ==
    /\ lpc = "U3"
    /\ \E U3 \in Mats(ChainDims.microbe_latent_dim, ChainDims.d1) :
       \E U2b \in Vecs(ChainDims.microbe_latent_dim) :
           /\ chain_ranks' = RanksFirst(U3, U2b)
           /\ chain_pred' =
                  [i \in 1..ChainDims.d1 |-> PredictFirst(Indicator(i), U3, U2b)]
    /\ lpc' = "U2"
    /\ UNCHANGED notChain

LayerU2 ==
    /\ lpc = "U2"
    /\ \E U2 \in Mats(SharedDim, ChainDims.microbe_latent_dim) :
       \E V2b \in Vecs(SharedDim) :
           /\ chain_ranks' = RanksLayer(chain_ranks, U2, V2b)
           /\ chain_pred' =
                  [i \in 1..ChainDims.d1 |-> PredictLayer(chain_pred[i], U2, V2b)]
    /\ lpc' = "V2"
    /\ UNCHANGED notChain

LayerV2 ==
    /\ lpc = "V2"
    /\ \E V2 \in Mats(ChainDims.metabolite_latent_dim, SharedDim) :
       \E V1b \in Vecs(ChainDims.metabolite_latent_dim) :
           /\ chain_ranks' = RanksLayer(chain_ranks, V2, V1b)
           /\ chain_pred' =
                  [i \in 1..ChainDims.d1 |-> PredictLayer(chain_pred[i], V2, V1b)]
    /\ lpc' = "V1"
    /\ UNCHANGED notChain

LayerV1 ==
    /\ lpc = "V1"
    /\ \E V1 \in Mats(ChainDims.d2, ChainDims.metabolite_latent_dim) :
           /\ chain_ranks' = RanksLast(chain_ranks, V1)
           /\ chain_pred' =
                  [i \in 1..ChainDims.d1 |-> PredictLast(chain_pred[i], V1)]
    /\ lpc' = "done"
    /\ UNCHANGED notChain

ChainNext == LayerU3 \/ LayerU2 \/ LayerV2 \/ LayerV1

SpecChain == ChainInit /\ [][ChainNext]_vars

\* C6: row i of the rank matrix is the raw pre-softmax output of the model
\* for the single-microbe indicator e_i (the argument predict hands to
\* softmax), and the rank matrix is (#microbes) x (#metabolites).
C6_RanksRowsArePredictions ==
    lpc = "done" =>
        /\ Len(chain_ranks) = ChainDims.d1
        /\ \A i \in 1..ChainDims.d1 :
               /\ Len(chain_ranks[i]) = ChainDims.d2
               /\ chain_pred[i] = << chain_ranks[i] >>

C6_Witness ==
    /\ lpc = "done"
    /\ chain_ranks[1] # chain_ranks[2]
    /\ \E j \in 1..ChainDims.d2 : chain_ranks[1][j] < 0
    /\ \E j \in 1..ChainDims.d2 : chain_ranks[2][j] > 1

(***************************************************************************)
(* cross_validation: the retrieval report.                                 *)
(***************************************************************************)
Abs(x) == IF x < 0 THEN 0 - x ELSE x

RECURSIVE Gcd(_, _)
Gcd(a, b) == IF b = 0 THEN a ELSE Gcd(b, a % b)

\* a fraction with denominator 0 stands for NaN (0/0)
IsNaN(f) == f[2] = 0

Reduce(f) ==
    IF IsNaN(f) THEN <<0, 0>>
    ELSE LET g == Gcd(Abs(f[1]), Abs(f[2])) IN <<f[1] \div g, f[2] \div g>>

FracMul(a, b) == Reduce(<<a[1] * b[1], a[2] * b[2]>>)

\* 2pr / (p + r)
HarmonicMean(p, r) ==
    Reduce(FracDiv(FracMul(<<2, 1>>, FracMul(Reduce(p), Reduce(r))),
                   Reduce(FracAdd(Reduce(p), Reduce(r)))))

\* equal to the six decimals a report is compared at
ApproxEq(a, b) ==
    IF IsNaN(a) \/ IsNaN(b) THEN IsNaN(a) /\ IsNaN(b)
    ELSE LET x == Reduce(a)
             y == Reduce(b)
         IN  Abs(x[1] * y[2] - y[1] * x[2]) <= (x[2] * y[2]) \div 1000000

\* the destinations (metabolites) a source row is compared over
CvDests == 1..4

\* the synthetic data of TestMultimodalModel.setUp: 500 samples of 10
\* microbe counts each, one source row per count
TestNumSamples == 500
TestMicrobeTotal == 10

\* the top-N neighbour set of one row, from the argsort of its scores
TopSet(p, n) == Range(TopK(p, n))

\* one source row: TP = predicted and true, FP = predicted but not true,
\* FN = true but not predicted, TN = the rest
ScoreCounts(c, P, T) ==
    [TP |-> c.TP + Cardinality(P \cap T),
     FP |-> c.FP + Cardinality(P \ T),
     FN |-> c.FN + Cardinality(T \ P),
     TN |-> c.TN + Cardinality(CvDests \ (P \cup T))]

MetricReport(c) ==
    LET precision == <<c.TP, c.TP + c.FP>>
        recall == <<c.TP, c.TP + c.FN>>
    IN  [FN |-> c.FN, FP |-> c.FP, TN |-> c.TN, TP |-> c.TP,
         f1_score |-> HarmonicMean(precision, recall),
         meanRK |-> recall,
         precision |-> precision,
         recall |-> recall]

\* a report whose TN is taken as the destinations outside the predicted
\* set alone, R * (D - top_N), whatever the true set holds
ExpParamsTNFromPredicted ==
    [FN |-> 3060, FP |-> 3060, TN |-> 10000, TP |-> 6940,
     f1_score |-> <<462667, 1000000>>,
     meanRK |-> <<347, 1000>>,
     precision |-> <<694, 1000>>,
     recall |-> <<347, 1000>>]

\* the report test_cross_validation requires cross_validation to return
exp_params ==
    [FN |-> 3060, FP |-> 3060, TN |-> 6940, TP |-> 6940,
     f1_score |-> <<462667, 1000000>>,
     meanRK |-> <<347, 1000>>,
     precision |-> <<694, 1000>>,
     recall |-> <<347, 1000>>]

CvInit ==
    /\ \/ /\ cvpc = "score"
          /\ top_N \in CvDests
          /\ cv_rows \in 1..MaxCvRows
       \/ /\ cvpc = "reference"
          /\ top_N = 2
          /\ cv_rows = TestNumSamples * TestMicrobeTotal
    /\ cv_done = 0
    /\ counts = [TP |-> 0, FP |-> 0, FN |-> 0, TN |-> 0]
    /\ cv_params = <<>>
    /\ RankIdle /\ OnehotIdle /\ ChainIdle /\ SpearmanIdle /\ CmdIdle

\* one source row: the predicted and the true scores of the row are
\* argsorted and their top_N columns compared
ScoreRow ==
    /\ cvpc = "score"
    /\ cv_done < cv_rows
    /\ \E p \in Perms(Cardinality(CvDests)) : \E q \in Perms(Cardinality(CvDests)) :
           counts' = ScoreCounts(counts, TopSet(p, top_N), TopSet(q, top_N))
    /\ cv_done' = cv_done + 1
    /\ UNCHANGED <<top_N, cv_rows, cv_params, cvpc, notCv>>

Report ==
    /\ cvpc = "score"
    /\ cv_done = cv_rows
    /\ cv_params' = MetricReport(counts)
    /\ cvpc' = "done"
    /\ UNCHANGED <<top_N, cv_rows, cv_done, counts, notCv>>

\* the run of test_cross_validation: the fitted model and its 5000 rows
\* are outside the model, the report it returns is the one the test pins
ReferenceRun ==
    /\ cvpc = "reference"
    /\ cv_done' = cv_rows
    /\ counts' = [TP |-> exp_params.TP, FP |-> exp_params.FP,
                  FN |-> exp_params.FN, TN |-> exp_params.TN]
    /\ cv_params' = exp_params
    /\ cvpc' = "done"
    /\ UNCHANGED <<top_N, cv_rows, notCv>>

CvNext == ScoreRow \/ Report \/ ReferenceRun

SpecCV == CvInit /\ [][CvNext]_vars

\* C7: in every report the ratios agree with the counts of the same
\* report: precision = TP/(TP+FP), recall = TP/(TP+FN), and f1_score is the
\* harmonic mean of precision and recall; the reference report included.
C7_RatiosMatchCounts ==
    cvpc = "done" =>
        /\ FracEq(cv_params.precision,
                  <<cv_params.TP, cv_params.TP + cv_params.FP>>)
        /\ FracEq(cv_params.recall,
                  <<cv_params.TP, cv_params.TP + cv_params.FN>>)
        /\ ApproxEq(cv_params.f1_score,
                    HarmonicMean(cv_params.precision, cv_params.recall))

\* what does hold of the reference report: precision and f1_score agree
\* with the report, recall (and meanRK) is TP over all four counts
C7_ReferenceShape ==
    (cvpc = "done" /\ cv_params = exp_params) =>
        /\ FracEq(cv_params.precision,
                  <<cv_params.TP, cv_params.TP + cv_params.FP>>)
        /\ ApproxEq(cv_params.f1_score,
                    HarmonicMean(cv_params.precision, cv_params.recall))
        /\ ~FracEq(cv_params.recall,
                   <<cv_params.TP, cv_params.TP + cv_params.FN>>)
        /\ FracEq(cv_params.recall,
                  <<cv_params.TP,
                    cv_params.TP + cv_params.FP + cv_params.FN + cv_params.TN>>)

\* the generated runs satisfy the statement: only the pinned report breaks it
C7_GeneratedRunsAgree ==
    (cvpc = "done" /\ cv_params # exp_params) => C7_RatiosMatchCounts

(***************************************************************************)
(* autoencoder: the ms_spearman entry of the report.                       *)
(***************************************************************************)

\* metabolite columns of the held-out table
SpMetabolites == 1..4

\* top_k of the explored runs
SpTopK == {3}

\* rank of entry i among the entries of a tie-free vector
RankIn(v, i) == 1 + Cardinality({j \in DOMAIN v : v[j] < v[i]})

RECURSIVE SumSqDiff(_, _, _)
SumSqDiff(a, b, n) ==
    IF n = 0 THEN 0
    ELSE (RankIn(a, n) - RankIn(b, n)) * (RankIn(a, n) - RankIn(b, n))
             + SumSqDiff(a, b, n - 1)

\* scipy.stats.spearmanr(a, b) on tie-free vectors: the pair
\* (correlation, pvalue).  correlation = 1 - 6*sum(d^2) / (n(n^2-1)); the
\* p-value is the two-sided t-test with n-2 degrees of freedom, which for
\* n = 3 is 1 - (2/pi)*atan|t| with t = rho/sqrt(1-rho^2): 0 for
\* rho = +-1 and 2/3 for rho = +-1/2 (the only values three tie-free
\* points give).
spearmanr(a, b) ==
    LET n == Len(a)
        den == n * (n * n - 1)
        rho == Reduce(<<den - 6 * SumSqDiff(a, b, n), den>>)
    IN  <<rho, IF Abs(rho[1]) = rho[2] THEN <<0, 1>> ELSE <<2, 3>> >>

\* np.mean over a list of fractions
FracMean(s) == Reduce(FracDiv(Reduce(FracSum(s)), <<Len(s), 1>>))

MeanOfCorrelations(results) ==
    FracMean([i \in DOMAIN results |-> results[i][1]])

\* np.mean(ms_r): the list of (correlation, pvalue) pairs becomes an
\* n x 2 array and the mean runs over all of its 2n entries
MeanOfResults(results) ==
    FracMean(Concat([i \in DOMAIN results |-> <<results[i][1], results[i][2]>>]))

SpearmanInit ==
    /\ sp_samples \in 1..MaxHeldOut
    /\ sp_k \in SpTopK
    /\ ms_r = <<>>
    /\ rhos = <<>>
    /\ ms_spearman = <<>>
    /\ sppc = "loop"
    /\ RankIdle /\ OnehotIdle /\ ChainIdle /\ CvIdle /\ CmdIdle

\* one pass of `for i in range(metabolites.shape[0])`.  Row i of pred_ms
\* and of metabolites are tie-free; softmax and closure keep the order of a
\* row, so each is given by the order of its entries.
SpearmanLoop ==
    /\ sppc = "loop"
    /\ Len(ms_r) < sp_samples
    /\ \E pred \in Perms(Cardinality(SpMetabolites)) :
       \E obs \in Perms(Cardinality(SpMetabolites)) :
       \E order \in ArgSorts(pred) :
           LET idx == TopK(order, sp_k)
               r == spearmanr([t \in 1..sp_k |-> pred[idx[t]]],
                              [t \in 1..sp_k |-> obs[idx[t]]])
           IN  /\ ms_r' = Append(ms_r, r)
               /\ rhos' = Append(rhos, r[1])
    /\ UNCHANGED <<sp_samples, sp_k, ms_spearman, sppc, notSpearman>>

SpearmanMean ==
    /\ sppc = "loop"
    /\ Len(ms_r) = sp_samples
    /\ ms_spearman' = MeanOfResults(ms_r)
    /\ sppc' = "done"
    /\ UNCHANGED <<sp_samples, sp_k, ms_r, rhos, notSpearman>>

SpearmanNext == SpearmanLoop \/ SpearmanMean

SpecSpearman == SpearmanInit /\ [][SpearmanNext]_vars

\* C10: the reported ms_spearman is the average over the held-out samples
\* of the per-sample Spearman correlation coefficient on the top-k
\* predicted metabolites; nothing else (the p-value) enters the average.
C10_MeanOfCorrelations ==
    sppc = "done" => FracEq(ms_spearman, FracMean(rhos))

\* what the code reports: the average of the coefficients and the p-values
\* together, (sum of rho + sum of p) / 2n
C10_MeanIncludesPValues ==
    sppc = "done" =>
        FracEq(ms_spearman,
               FracDiv(FracAdd(FracSum(rhos),
                               FracSum([i \in DOMAIN ms_r |-> ms_r[i][2]])),
                       <<2 * sp_samples, 1>>))

(***************************************************************************)
(* The commands: autoencoder, network, split.                              *)
(***************************************************************************)
CmdMicrobes == 1..2         \* microbe columns of a command's tables
CmdMetabolites == 1..3      \* metabolite columns of a command's tables
CmdCounts == {0, 1}         \* entries of a command's tables

\* the frames a command can read: n samples of microbe and metabolite counts
Frames(n) ==
    [microbes : [1..n -> [CmdMicrobes -> CmdCounts]],
     metabolites : [1..n -> [CmdMetabolites -> CmdCounts]]]

ZeroRow(tab) == \E s \in DOMAIN tab : SeqSum(tab[s]) = 0

HasNaN(tab) == \E s \in DOMAIN tab : \E j \in DOMAIN tab[s] : IsNaN(tab[s][j])

ClosureUnguarded(mat) == [raised |-> FALSE, value |-> closure(mat)]

\* skbio.stats.composition.closure as the commands call it: a matrix with
\* an all-zero row is refused with ValueError ("Input matrix cannot have
\* rows with all zeros"), any other matrix is divided row by row
closure_or_raise(mat) ==
    IF ZeroRow(mat) THEN [raised |-> TRUE, value |-> <<>>]
    ELSE [raised |-> FALSE, value |-> closure(mat)]

\* mean_ms_diff: NaN as soon as one operand holds a NaN
MsErr(cl) ==
    IF HasNaN(cl.microbes) \/ HasNaN(cl.metabolites) THEN "nan" ELSE "num"

\* np.mean(entropy(metabolites, pred_ms)): entropy normalises every column
\* over the samples, so a NaN operand or an all-zero metabolite column
\* gives NaN
MsKl(cl) ==
    IF \/ HasNaN(cl.microbes) \/ HasNaN(cl.metabolites)
       \/ \E j \in CmdMetabolites :
              \A s \in DOMAIN cl.metabolites : cl.metabolites[s][j][1] = 0
    THEN "nan" ELSE "num"

\* np.mean(ms_r): NaN as soon as one sample's spearmanr is NaN, which a
\* NaN operand or a constant observed row gives (top_k covers the row)
MsSpearman(cl) ==
    IF \/ HasNaN(cl.microbes) \/ HasNaN(cl.metabolites)
       \/ \E s \in DOMAIN cl.metabolites :
              \A i, j \in CmdMetabolites :
                  cl.metabolites[s][i] = cl.metabolites[s][j]
    THEN "nan" ELSE "num"

Running(c, at) == cmd = c /\ pc = at /\ status = "running"

CmdInit ==
    /\ cmd \in {"autoencoder", "network", "split"}
    /\ pc = "start"
    /\ status = "running"
    /\ files = {}
    /\ microbes_df = <<>>
    /\ metabolites_df = <<>>
    /\ closed = <<>>
    /\ params = <<>>
    /\ index = {}
    /\ num_test = 0
    /\ sample_ids = {}
    /\ RankIdle /\ OnehotIdle /\ ChainIdle /\ CvIdle /\ SpearmanIdle

\* a write to an output path: it succeeds, or the path cannot be written
\* (missing directory, no permission, full disk) and the command ends
WriteFile(name, next, last) ==
    \/ /\ files' = files \cup {name}
       /\ pc' = next
       /\ status' = IF last THEN "ok" ELSE "running"
    \/ /\ files' = files
       /\ pc' = pc
       /\ status' = "OSError"

\* ---- autoencoder ----

\* lines 178-191: the training tables become frames
AeLoadTrain ==
    /\ Running("autoencoder", "start")
    /\ \E n \in 1..MaxSamples : \E f \in Frames(n) :
           /\ microbes_df' = f.microbes
           /\ metabolites_df' = f.metabolites
    /\ pc' = "closure_train"
    /\ UNCHANGED <<cmd, status, files, closed, params, index, num_test,
                   sample_ids, notCmd>>

\* closure of both frames, microbes first; the first refusal ends the command
CloseFrames ==
    LET m == closure_or_raise(microbes_df)
        ms == closure_or_raise(metabolites_df)
    IN  IF m.raised \/ ms.raised
        THEN [raised |-> TRUE, value |-> <<>>]
        ELSE [raised |-> FALSE,
              value |-> [microbes |-> m.value, metabolites |-> ms.value]]

\* lines 198-199
AeClosureTrain ==
    /\ Running("autoencoder", "closure_train")
    /\ IF CloseFrames.raised
       THEN status' = "ValueError" /\ pc' = pc /\ closed' = closed
       ELSE status' = status /\ pc' = "fit" /\ closed' = CloseFrames.value
    /\ UNCHANGED <<cmd, files, microbes_df, metabolites_df, params, index,
                   num_test, sample_ids, notCmd>>

\* lines 202-226: build_model and model.fit; the training frames and their
\* closures are not read again
AeFit ==
    /\ Running("autoencoder", "fit")
    /\ pc' = "load_test"
    /\ microbes_df' = <<>>
    /\ metabolites_df' = <<>>
    /\ closed' = <<>>
    /\ UNCHANGED <<cmd, status, files, params, index, num_test, sample_ids,
                   notCmd>>

\* lines 228-236: the held-out tables become frames
AeLoadTest ==
    /\ Running("autoencoder", "load_test")
    /\ \E n \in 1..MaxSamples : \E f \in Frames(n) :
           /\ microbes_df' = f.microbes
           /\ metabolites_df' = f.metabolites
    /\ pc' = "closure_test"
    /\ UNCHANGED <<cmd, status, files, closed, params, index, num_test,
                   sample_ids, notCmd>>

\* lines 238-239
AeClosureTest ==
    /\ Running("autoencoder", "closure_test")
    /\ IF CloseFrames.raised
       THEN status' = "ValueError" /\ pc' = pc /\ closed' = closed
       ELSE status' = status /\ pc' = "evaluate" /\ closed' = CloseFrames.value
    /\ UNCHANGED <<cmd, files, microbes_df, metabolites_df, params, index,
                   num_test, sample_ids, notCmd>>

\* lines 243-284: ranks, predictions and the three metrics of the report
AeEvaluate ==
    /\ Running("autoencoder", "evaluate")
    /\ params' = [ms_err |-> MsErr(closed),
                  ms_kl |-> MsKl(closed),
                  ms_spearman |-> MsSpearman(closed)]
    /\ pc' = "write_results"
    /\ UNCHANGED <<cmd, status, files, microbes_df, metabolites_df, closed,
                   index, num_test, sample_ids, notCmd>>

\* line 285: params.to_csv(results_file)
AeWriteResults ==
    /\ Running("autoencoder", "write_results")
    /\ WriteFile("results_file", "write_ranks", FALSE)
    /\ UNCHANGED <<cmd, microbes_df, metabolites_df, closed, params, index,
                   num_test, sample_ids, notCmd>>

\* line 286: ranks.to_csv(ranks_file)
AeWriteRanks ==
    /\ Running("autoencoder", "write_ranks")
    /\ WriteFile("ranks_file", "done", TRUE)
    /\ UNCHANGED <<cmd, microbes_df, metabolites_df, closed, params, index,
                   num_test, sample_ids, notCmd>>

\* ---- network ----

\* line 300: pd.read_csv(ranks_file); a missing file ends the command
NetRead ==
    /\ Running("network", "start")
    /\ \/ pc' = "write_edges" /\ status' = status
       \/ pc' = pc /\ status' = "FileNotFoundError"
    /\ UNCHANGED <<cmd, files, microbes_df, metabolites_df, closed, params,
                   index, num_test, sample_ids, notCmd>>

\* lines 301-327: the edge table is built and written
NetWriteEdges ==
    /\ Running("network", "write_edges")
    /\ WriteFile("edge_metadata", "write_nodes", FALSE)
    /\ UNCHANGED <<cmd, microbes_df, metabolites_df, closed, params, index,
                   num_test, sample_ids, notCmd>>

\* lines 329-336: the node table is built and written
NetWriteNodes ==
    /\ Running("network", "write_nodes")
    /\ WriteFile("node_metadata", "done", TRUE)
    /\ UNCHANGED <<cmd, microbes_df, metabolites_df, closed, params, index,
                   num_test, sample_ids, notCmd>>

\* ---- split ----

\* lines 34-52: the two tables are loaded and aligned on their samples
SplitLoad ==
    /\ Running("split", "start")
    /\ \E n \in 1..MaxSamples : index' = 1..n
    /\ num_test' \in 1..MaxSamples
    /\ pc' = "choose"
    /\ UNCHANGED <<cmd, status, files, microbes_df, metabolites_df, closed,
                   params, sample_ids, notCmd>>

ChoiceWithoutReplacement(ids, size) ==
    {Range(d) : d \in {e \in [1..size -> ids] :
                           \A i, j \in 1..size : i # j => e[i] # e[j]}}

\* set(np.random.choice(index, size=num_test)): num_test draws from the
\* index, every draw independent of the others (replace=True is numpy's
\* default), collected into a set
Choice(ids, size) == {Range(d) : d \in [1..size -> ids]}

\* lines 54-59
SplitChoose ==
    /\ Running("split", "choose")
    /\ sample_ids' \in Choice(index, num_test)
    /\ pc' = "write_train_microbes"
    /\ UNCHANGED <<cmd, status, files, microbes_df, metabolites_df, closed,
                   params, index, num_test, notCmd>>

\* lines 83-84
SplitWriteTrainMicrobes ==
    /\ Running("split", "write_train_microbes")
    /\ WriteFile("train_microbes", "write_test_microbes", FALSE)
    /\ UNCHANGED <<cmd, microbes_df, metabolites_df, closed, params, index,
                   num_test, sample_ids, notCmd>>

\* lines 85-86
SplitWriteTestMicrobes ==
    /\ Running("split", "write_test_microbes")
    /\ WriteFile("test_microbes", "write_train_metabolites", FALSE)
    /\ UNCHANGED <<cmd, microbes_df, metabolites_df, closed, params, index,
                   num_test, sample_ids, notCmd>>

\* lines 87-88
SplitWriteTrainMetabolites ==
    /\ Running("split", "write_train_metabolites")
    /\ WriteFile("train_metabolites", "write_test_metabolites", FALSE)
    /\ UNCHANGED <<cmd, microbes_df, metabolites_df, closed, params, index,
                   num_test, sample_ids, notCmd>>

\* lines 89-90
SplitWriteTestMetabolites ==
    /\ Running("split", "write_test_metabolites")
    /\ WriteFile("test_metabolites", "done", TRUE)
    /\ UNCHANGED <<cmd, microbes_df, metabolites_df, closed, params, index,
                   num_test, sample_ids, notCmd>>

CmdNext ==
    \/ AeLoadTrain \/ AeClosureTrain \/ AeFit \/ AeLoadTest \/ AeClosureTest
    \/ AeEvaluate \/ AeWriteResults \/ AeWriteRanks
    \/ NetRead \/ NetWriteEdges \/ NetWriteNodes
    \/ SplitLoad \/ SplitChoose \/ SplitWriteTrainMicrobes
    \/ SplitWriteTestMicrobes \/ SplitWriteTrainMetabolites
    \/ SplitWriteTestMetabolites

SpecCmd == CmdInit /\ [][CmdNext]_vars

Failed == status \notin {"idle", "running", "ok"}

\* C8: a training or held-out table with a zero-sum row makes closure fail
\* where it is called: the run ends there with the error, it never gets to
\* the mean-absolute-difference, Spearman or KL computation with such a
\* row, and no NaN from it reaches a report.
C8_ZeroRowRejected ==
    cmd = "autoencoder" =>
        /\ (ZeroRow(microbes_df) \/ ZeroRow(metabolites_df)) =>
               /\ pc \in {"closure_train", "closure_test"}
               /\ params = <<>>
               /\ files = {}
               /\ closed = <<>>
               /\ status \in {"running", "ValueError"}
        /\ pc \in {"fit", "evaluate", "write_results", "write_ranks", "done"} =>
               /\ ~ZeroRow(microbes_df) /\ ~ZeroRow(metabolites_df)
               /\ ~HasNaN(closed.microbes) /\ ~HasNaN(closed.metabolites)
        /\ status = "ValueError" =>
               /\ pc \in {"closure_train", "closure_test"}
               /\ ZeroRow(microbes_df) \/ ZeroRow(metabolites_df)

\* C8, the step: closure of frames with a zero-sum row ends the command
\* with the error and leaves nothing behind.
C8_ClosureFailsAtOnce ==
    [][(/\ cmd = "autoencoder"
        /\ status = "running"
        /\ pc \in {"closure_train", "closure_test"}
        /\ ZeroRow(microbes_df) \/ ZeroRow(metabolites_df))
       => (status' = "ValueError" /\ params' = <<>> /\ files' = {})]_vars

C8_Witness ==
    /\ cmd = "autoencoder"
    /\ pc = "closure_test"
    /\ status = "ValueError"
    /\ ~ZeroRow(microbes_df)
    /\ ZeroRow(metabolites_df)
    /\ Len(metabolites_df) = 2
    /\ ~ZeroRow(<<metabolites_df[1]>>)

\* C9: no partial results on failure: when a command has ended with an
\* error, none of its output artifacts has been written.
C9_NoPartialResults == Failed => files = {}

\* what holds instead: a failure leaves exactly the artifacts written
\* before the failing step, in the order the command writes them
C9_PrefixOfArtifacts ==
    Failed =>
        files \in {{}, {"results_file"}, {"edge_metadata"},
                   {"train_microbes"},
                   {"train_microbes", "test_microbes"},
                   {"train_microbes", "test_microbes", "train_metabolites"}}

\* lines 55, 57, 59: the rows of the aligned index that are in the drawn set
TestSamples == {x \in index : x \in sample_ids}

\* lines 55, 56, 58: the rows of the aligned index that are not
TrainSamples == {x \in index : x \notin sample_ids}

SplitChosen ==
    cmd = "split" /\ pc \notin {"start", "choose"}

\* C11: for every aligned sample set with at least num_test samples and
\* every outcome of the draw, split puts exactly num_test distinct samples
\* into the test tables and the remaining samples into the train tables.
C11_ExactlyNumTest ==
    (SplitChosen /\ num_test <= Cardinality(index)) =>
        /\ Cardinality(TestSamples) = num_test
        /\ TrainSamples = index \ TestSamples
        /\ Cardinality(TrainSamples) = Cardinality(index) - num_test

\* what holds of every draw: the test tables hold between 1 and num_test
\* samples, the train tables the rest of the index
C11_AtMostNumTest ==
    SplitChosen =>
        /\ Cardinality(TestSamples) >= 1
        /\ Cardinality(TestSamples) <= num_test
        /\ TestSamples \cup TrainSamples = index
        /\ TestSamples \cap TrainSamples = {}

\* a draw that repeats a sample: two draws from two samples, one in the test
\* tables
C11_RepeatedDraw ==
    /\ SplitChosen
    /\ Cardinality(index) = 2
    /\ num_test = 2
    /\ Cardinality(TestSamples) = 1
    /\ Cardinality(TrainSamples) = 1

\* C12: the count invariant of retrieval scoring.  With top_N predicted and
\* top_N true neighbours taken for each of R source rows over D
\* destinations (top_N <= D), every report has TP + FP = R*top_N,
\* TP + FN = R*top_N (so FP = FN), TP + FP + FN + TN = R*D, and no negative
\* count; the running counts satisfy the same after each scored row.
C12_CountInvariant ==
    LET D == Cardinality(CvDests)
        Balanced(c, R) ==
            /\ c.TP + c.FP = R * top_N
            /\ c.TP + c.FN = R * top_N
            /\ c.FP = c.FN
            /\ c.TP + c.FP + c.FN + c.TN = R * D
            /\ c.TP >= 0 /\ c.FP >= 0 /\ c.FN >= 0 /\ c.TN >= 0
    IN  /\ cvpc = "score" => (top_N <= D /\ Balanced(counts, cv_done))
        /\ cvpc = "done" => (top_N <= D /\ Balanced(cv_params, cv_rows))

\* a generated report over several rows in which all four counts occur
C12_Witness ==
    /\ cvpc = "done"
    /\ cv_params # exp_params
    /\ cv_rows >= 2
    /\ top_N = 1
    /\ cv_params.TP > 0 /\ cv_params.FP > 0
    /\ cv_params.FN > 0 /\ cv_params.TN > 0
    /\ cv_params.TP # cv_params.TN

\* the reference report of test_cross_validation, 5000 rows over 4
\* destinations
C12_ReferenceReported ==
    /\ cvpc = "done"
    /\ cv_params = exp_params
    /\ cv_rows = TestNumSamples * TestMicrobeTotal

====
